---- MODULE Spec2Model ----
(***************************************************************************)
(* A model of opencode-wrapped: the statistics engine (src/src/stats.ts)   *)
(* and the collector with its format parsers (src/src/collector.ts).       *)
(*                                                                         *)
(* Time is counted in hours since 1970-01-01T00:00Z (the source counts     *)
(* milliseconds; every quantity the code divides by is a whole number of   *)
(* hours).  A date key "YYYY-MM-DD" is the triple <<year, month, day>>;    *)
(* the lexicographic order of the fixed-width strings is the lexicographic *)
(* order of the triples.  An optional value is a sequence of length 0 or 1.*)
(* An insertion-ordered Map is a sequence of entries with distinct keys.   *)
(***************************************************************************)
EXTENDS Integers, Sequences, FiniteSets, TLC

VARIABLES
    \* ---- calculateStats ----
    source,         \* the DataSource the run is about
    summerTime,     \* the local zone's daylight-saving period of the year, if it has one
    year,           \* the target year of calculateStats
    now,            \* the wall clock (Date.now()) of the run
    allSessions,    \* collectAll(source).sessions
    messages,       \* collectAll(source).messages
    projects,       \* collectAll(source).projects
    stats,          \* the WrappedStats returned, once calculateStats is done
    pc,             \* where the run is
    \* ---- one call of parsePiFile, parseClaudeFile or parseCodexFile ----
    fileLines,      \* the lines of the file
    lineNo,         \* the line the loop is at
    yearFilter,     \* the year argument (0: none)
    parse,          \* the parser's session(s) and messages so far
    ppc,            \* "idle", "parsing" or "returned"
    \* ---- one call of collectAll ----
    files,          \* the files under the root (opencode: the documents), each a sequence of lines
    rootReadable,   \* whether the source's root directory can be listed
    access,         \* per file: "ok", "hidden" (its directory or stat fails) or "unreadable"
    collectYear,    \* the year argument (0: none)
    pending,        \* the files whose parse callback has not run yet
    accSessions,    \* sessions
    accMessages,    \* allMessages
    projectMap,     \* projectMap
    claudeSessions, \* allSessions, the Map of the claude branch
    collected,      \* the value returned, once collectAll is done
    cpc             \* "idle", "collecting" or "returned"

statsVars == <<year, now, allSessions, messages, projects, stats, pc>>
parserVars == <<fileLines, lineNo, yearFilter, parse, ppc>>

collectVars == <<files, rootReadable, access, collectYear, pending, accSessions, accMessages, projectMap,
                 claudeSessions, collected, cpc>>

vars == <<source, summerTime, statsVars, parserVars, collectVars>>

(***************************************************************************)
(* Bounds of the model.                                                    *)
(***************************************************************************)
MaxMsgs == 3
WindowDays == 5
MaxLines == 3
MaxFiles == 2
TzOffsetHours == 1

(***************************************************************************)
(* The calendar of the JavaScript Date the code uses.                      *)
(***************************************************************************)
HoursPerDay == 24

\* The civil date <<y, m, d>> of a day number (days since 1970-01-01).
CivilFromDays(n) ==
    LET z   == n + 719468
        era == z \div 146097
        doe == z - era * 146097
        yoe == (doe - doe \div 1460 + doe \div 36524 - doe \div 146096) \div 365
        doy == doe - (365 * yoe + yoe \div 4 - yoe \div 100)
        mp  == (5 * doy + 2) \div 153
        d   == doy - (153 * mp + 2) \div 5 + 1
        m   == IF mp < 10 THEN mp + 3 ELSE mp - 9
        y   == yoe + era * 400 + (IF m <= 2 THEN 1 ELSE 0)
    IN <<y, m, d>>

\* The day number of a civil date.
DaysFromCivil(y0, m, d) ==
    LET y   == IF m <= 2 THEN y0 - 1 ELSE y0
        era == y \div 400
        yoe == y - era * 400
        doy == (153 * (IF m > 2 THEN m - 3 ELSE m + 9) + 2) \div 5 + d - 1
        doe == yoe * 365 + yoe \div 4 - yoe \div 100 + doy
    IN era * 146097 + doe - 719468

\* new Date(NaN): every getter answers NaN, which equals no year.
NaN == 0 - 1

\* The local zone without daylight saving.
NoSummerTime == <<>>

\* The hours the local zone is ahead of UTC at an instant: TzOffsetHours, and
\* one more from the start to the end of the daylight-saving period.
ZoneOffset(ts) ==
    IF summerTime # NoSummerTime /\ summerTime[1].start <= ts /\ ts < summerTime[1].end
    THEN TzOffsetHours + 1
    ELSE TzOffsetHours

\* The local calendar day of a timestamp.
LocalDay(ts) == (ts + ZoneOffset(ts)) \div HoursPerDay

\* Date.prototype.getFullYear (local time).
getFullYear(ts) == IF ts = NaN THEN NaN ELSE CivilFromDays(LocalDay(ts))[1]

\* Date.prototype.getDay (local time): 0 is Sunday; 1970-01-01 was a Thursday.
getDay(ts) == (LocalDay(ts) + 4) % 7

\* formatDateKey: `${year}-${month}-${day}`, zero padded, in local time.
formatDateKey(ts) == CivilFromDays(LocalDay(ts))

\* new Date("YYYY-MM-DD").getTime(): a date-only string is UTC midnight.
ParseDateKey(key) == DaysFromCivil(key[1], key[2], key[3]) * HoursPerDay

\* String comparison of two date keys (Array.prototype.sort's default order).
KeyLess(a, b) ==
    \/ a[1] < b[1]
    \/ a[1] = b[1] /\ a[2] < b[2]
    \/ a[1] = b[1] /\ a[2] = b[2] /\ a[3] < b[3]

\* date.startsWith(String(year)) for a four-digit year.
StartsWithYear(key, y) == key[1] = y

(***************************************************************************)
(* Sequence helpers standing for the Array and Map methods the code calls. *)
(***************************************************************************)
RECURSIVE SelectMsgs(_, _)
\* messages.filter((m) => new Date(m.timestamp).getFullYear() === year)
SelectMsgs(s, y) ==
    IF s = <<>> THEN <<>>
    ELSE LET rest == SelectMsgs(Tail(s), y)
         IN IF getFullYear(Head(s).timestamp) = y THEN <<Head(s)>> \o rest ELSE rest

\* Map.prototype.has
MapHas(map, key) == \E i \in 1..Len(map) : map[i].key = key

\* A counter that is set, not incremented: map.set(key, 1).
MapSetOne(map, key) ==
    IF MapHas(map, key) THEN map ELSE Append(map, [key |-> key, count |-> 1])

\* map.set(key, (map.get(key) || 0) + 1): a new key goes to the end.
MapInc(map, key) ==
    IF MapHas(map, key)
    THEN [i \in 1..Len(map) |->
             IF map[i].key = key THEN [map[i] EXCEPT !.count = @ + 1] ELSE map[i]]
    ELSE Append(map, [key |-> key, count |-> 1])


\* Array.prototype.keys of a Map, in insertion order.
MapKeys(map) == [i \in 1..Len(map) |-> map[i].key]

RECURSIVE SumCounts(_)
\* The sum of the values of a Map.
SumCounts(map) == IF map = <<>> THEN 0 ELSE Head(map).count + SumCounts(Tail(map))

(***************************************************************************)
(* calculateStats, lines 39-65: the pass over the year's messages.         *)
(***************************************************************************)
EmptyAcc ==
    [totalInputTokens |-> 0, totalOutputTokens |-> 0, totalCost |-> 0,
     modelCounts |-> <<>>, providerCounts |-> <<>>, dailyActivity |-> <<>>,
     weekdayCounts |-> [d \in 0..6 |-> 0]]

\* One iteration of the loop body for one message.
AccumulateOne(acc, message) ==
    LET hasUsage == message.usage # <<>>
        usage    == message.usage[1]
        counted  == message.role = "assistant"
    IN [totalInputTokens  |-> acc.totalInputTokens + (IF hasUsage THEN usage.input ELSE 0),
        totalOutputTokens |-> acc.totalOutputTokens + (IF hasUsage THEN usage.output ELSE 0),
        totalCost         |-> acc.totalCost + (IF hasUsage THEN usage.cost ELSE 0),
        modelCounts       |-> IF counted /\ message.modelId # ""
                              THEN MapInc(acc.modelCounts, message.modelId)
                              ELSE acc.modelCounts,
        providerCounts    |-> IF counted /\ message.provider # ""
                              THEN MapInc(acc.providerCounts, message.provider)
                              ELSE acc.providerCounts,
        dailyActivity     |-> MapInc(acc.dailyActivity, formatDateKey(message.timestamp)),
        weekdayCounts     |-> [acc.weekdayCounts EXCEPT ![getDay(message.timestamp)] = @ + 1]]

RECURSIVE Accumulate(_, _)
\* for (const message of yearMessages) { ... }
Accumulate(acc, msgs) ==
    IF msgs = <<>> THEN acc ELSE Accumulate(AccumulateOne(acc, Head(msgs)), Tail(msgs))

(***************************************************************************)
(* calculateStats, lines 69-88: the top-3 rankings.                        *)
(***************************************************************************)
TopN == 3

\* A sort that is not stable: an entry goes before the entries of equal count.
InsertUnstable(sorted, e) ==
    LET k == Cardinality({i \in 1..Len(sorted) : sorted[i].count > e.count})
    IN SubSeq(sorted, 1, k) \o <<e>> \o SubSeq(sorted, k + 1, Len(sorted))

\* Where the stable sort by (a, b) => b[1] - a[1] puts entry e among the
\* already sorted entries: behind every entry whose count is not smaller.
InsertDesc(sorted, e) ==
    LET k == Cardinality({i \in 1..Len(sorted) : sorted[i].count >= e.count})
    IN SubSeq(sorted, 1, k) \o <<e>> \o SubSeq(sorted, k + 1, Len(sorted))

RECURSIVE SortDesc(_, _)
\* Array.from(counts.entries()).sort((a, b) => b[1] - a[1]): a stable sort.
SortDesc(sorted, entries) ==
    IF entries = <<>> THEN sorted
    ELSE SortDesc(InsertDesc(sorted, Head(entries)), Tail(entries))

\* .sort(...).slice(0, 3).map(([id, count]) => ({id, count, percentage: 0}))
TopRanking(counts) ==
    LET sorted == SortDesc(<<>>, counts)
        n      == IF Len(sorted) < TopN THEN Len(sorted) ELSE TopN
    IN [i \in 1..n |-> [id |-> sorted[i].key, count |-> sorted[i].count, percentage |-> 0]]


(***************************************************************************)
(* calculateStreaks, countStreakBackwards, findMostActiveDay,              *)
(* buildWeekdayActivity.                                                   *)
(***************************************************************************)
RECURSIVE SortKeys(_, _)
\* Array.prototype.sort() of date keys: ascending string order.
SortKeys(sorted, keys) ==
    IF keys = <<>> THEN sorted
    ELSE LET e == Head(keys)
             k == Cardinality({i \in 1..Len(sorted) : ~KeyLess(e, sorted[i])})
         IN SortKeys(SubSeq(sorted, 1, k) \o <<e>> \o SubSeq(sorted, k + 1, Len(sorted)),
                     Tail(keys))

\* Array.from(dailyActivity.keys()).filter((date) => date.startsWith(String(year))).sort()
ActiveDates(dailyActivity, y) ==
    SortKeys(<<>>, SelectSeq(MapKeys(dailyActivity), LAMBDA k : StartsWithYear(k, y)))

\* Math.round(diffTime / (1000 * 60 * 60 * 24)) for a difference that is not negative.
DiffDays(prevKey, currKey) ==
    (2 * (ParseDateKey(currKey) - ParseDateKey(prevKey)) + HoursPerDay) \div (2 * HoursPerDay)

\* A scan in which a later run of equal length replaces the recorded one.
ScanStepLastWins(activeDates, i, st) ==
    IF DiffDays(activeDates[i - 1], activeDates[i]) = 1
    THEN IF st.tempStreak + 1 >= st.maxStreak
         THEN [st EXCEPT !.tempStreak = @ + 1, !.maxStreak = st.tempStreak + 1,
                         !.maxStreakStart = st.tempStreakStart, !.maxStreakEnd = i]
         ELSE [st EXCEPT !.tempStreak = @ + 1]
    ELSE IF st.maxStreak = 1
         THEN [st EXCEPT !.tempStreak = 1, !.tempStreakStart = i,
                         !.maxStreakStart = i, !.maxStreakEnd = i]
         ELSE [st EXCEPT !.tempStreak = 1, !.tempStreakStart = i]

\* The body of the loop of lines 144-163 for index i (0-based i is i - 1 here).
ScanStep(activeDates, i, st) ==
    IF DiffDays(activeDates[i - 1], activeDates[i]) = 1
    THEN IF st.tempStreak + 1 > st.maxStreak
         THEN [st EXCEPT !.tempStreak = @ + 1, !.maxStreak = st.tempStreak + 1,
                         !.maxStreakStart = st.tempStreakStart, !.maxStreakEnd = i]
         ELSE [st EXCEPT !.tempStreak = @ + 1]
    ELSE [st EXCEPT !.tempStreak = 1, !.tempStreakStart = i]

RECURSIVE StreakScan(_, _, _)
\* for (let i = 1; i < activeDates.length; i++) { ... }
StreakScan(activeDates, i, st) ==
    IF i > Len(activeDates) THEN st
    ELSE StreakScan(activeDates, i + 1, ScanStep(activeDates, i, st))

RECURSIVE countStreakBackwards(_, _)
\* The streak is 1 for startDate plus one for every day before it, up to the
\* first day with no activity.
countStreakBackwards(dailyActivity, startDate) ==
    LET checkDate == startDate - HoursPerDay
    IN IF MapHas(dailyActivity, formatDateKey(checkDate))
       THEN 1 + countStreakBackwards(dailyActivity, checkDate)
       ELSE 1

\* The set built with one date too few.
StreakDaysShort(activeDates, first, last) == {activeDates[i] : i \in first..(last - 1)}

\* for (let i = maxStreakStart; i <= maxStreakEnd; i++) maxStreakDays.add(activeDates[i])
StreakDays(activeDates, first, last) == {activeDates[i] : i \in first..last}

calculateStreaks(dailyActivity, y, clock) ==
    LET activeDates == ActiveDates(dailyActivity, y)
        st0 == [maxStreak |-> 1, tempStreak |-> 1, tempStreakStart |-> 1,
                maxStreakStart |-> 1, maxStreakEnd |-> 1]
        st  == StreakScan(activeDates, 2, st0)
        today     == formatDateKey(clock)
        yesterday == formatDateKey(clock - HoursPerDay)
        currentStreak ==
            IF MapHas(dailyActivity, today)
            THEN countStreakBackwards(dailyActivity, clock)
            ELSE IF MapHas(dailyActivity, yesterday)
                 THEN countStreakBackwards(dailyActivity, clock - HoursPerDay)
                 ELSE 0
    IN IF activeDates = <<>>
       THEN [maxStreak |-> 0, currentStreak |-> 0, maxStreakDays |-> {}]
       ELSE [maxStreak |-> st.maxStreak, currentStreak |-> currentStreak,
             maxStreakDays |-> StreakDays(activeDates, st.maxStreakStart, st.maxStreakEnd)]

MonthNames ==
    <<"Jan", "Feb", "Mar", "Apr", "May", "Jun", "Jul", "Aug", "Sep", "Oct", "Nov", "Dec">>

\* A scan that keeps the later of two dates of equal count.
MostActiveStepLast(best, entry) ==
    IF entry.count >= best.maxCount
    THEN [maxDate |-> <<entry.key>>, maxCount |-> entry.count]
    ELSE best

\* if (count > maxCount) { maxCount = count; maxDate = date; }
MostActiveStep(best, entry) ==
    IF entry.count > best.maxCount
    THEN [maxDate |-> <<entry.key>>, maxCount |-> entry.count]
    ELSE best

RECURSIVE MostActiveScan(_, _)
\* for (const [date, count] of dailyActivity.entries()) { ... }
MostActiveScan(best, entries) ==
    IF entries = <<>> THEN best
    ELSE MostActiveScan(MostActiveStep(best, Head(entries)), Tail(entries))

\* The result is null (the empty option) or one record.
findMostActiveDay(dailyActivity) ==
    LET best == MostActiveScan([maxDate |-> <<>>, maxCount |-> 0], dailyActivity)
    IN IF dailyActivity = <<>> \/ best.maxDate = <<>>
       THEN <<>>
       ELSE LET key == best.maxDate[1]
                dateObj == CivilFromDays(DaysFromCivil(key[1], key[2], key[3]))
            IN <<[date |-> key, count |-> best.maxCount,
                  formattedDate |-> <<MonthNames[dateObj[2]], dateObj[3]>>]>>

WEEKDAY_NAMES_FULL ==
    <<"Sunday", "Monday", "Tuesday", "Wednesday", "Thursday", "Friday", "Saturday">>

RECURSIVE WeekdayScan(_, _, _)
\* for (let i = 0; i < 7; i++) if (counts[i] > maxCount) { ... }
WeekdayScan(counts, i, best) ==
    IF i > 6 THEN best
    ELSE WeekdayScan(counts, i + 1,
                     IF counts[i] > best.maxCount
                     THEN [mostActiveDay |-> i, maxCount |-> counts[i]]
                     ELSE best)

buildWeekdayActivity(counts) ==
    LET best == WeekdayScan(counts, 0, [mostActiveDay |-> 0, maxCount |-> 0])
    IN [counts |-> counts, mostActiveDay |-> best.mostActiveDay,
        mostActiveDayName |-> WEEKDAY_NAMES_FULL[best.mostActiveDay + 1],
        maxCount |-> best.maxCount]


(***************************************************************************)
(* collectAll, lines 566-570: the projects are the sessions grouped by cwd.*)
(***************************************************************************)
RECURSIVE GroupByCwd(_, _)
\* projectMap.set(cwd, (projectMap.get(cwd) || 0) + 1) for each session in turn.
GroupByCwd(pm, sessions) ==
    IF sessions = <<>> THEN pm
    ELSE GroupByCwd(MapInc(pm, Head(sessions).cwd), Tail(sessions))

\* Array.from(projectMap.entries()).map(([path, sessionCount]) => ({path, sessionCount, source}))
ProjectList(pm, src) ==
    [i \in 1..Len(pm) |->
        [path |-> pm[i].key, sessionCount |-> pm[i].count, source |-> src]]

(***************************************************************************)
(* calculateStats.                                                         *)
(***************************************************************************)
RECURSIVE MinTimestamp(_)
\* Math.min(...allSessions.map((s) => s.timestamp)): NaN if any timestamp is NaN.
MinTimestamp(sessions) ==
    IF Len(sessions) = 1 THEN Head(sessions).timestamp
    ELSE LET rest == MinTimestamp(Tail(sessions))
             h    == Head(sessions).timestamp
         IN IF h = NaN \/ rest = NaN THEN NaN ELSE IF h < rest THEN h ELSE rest

\* sessions.filter((s) => new Date(s.timestamp).getFullYear() === year)
YearSessions(sessions, y) == SelectSeq(sessions, LAMBDA s : getFullYear(s.timestamp) = y)

\* The daily-activity pass fed with every collected message, not the year's.
YearMessagesUnfiltered(msgs, y) == msgs

\* const yearMessages = messages.filter(...)
YearMessages(msgs, y) == SelectMsgs(msgs, y)

calculateStats(y, src, clock, sessionsIn, messagesIn, projectsIn) ==
    LET sessions     == YearSessions(sessionsIn, y)
        yearMessages == YearMessages(messagesIn, y)
        first        == IF sessionsIn = <<>> THEN clock ELSE MinTimestamp(sessionsIn)
        acc          == Accumulate(EmptyAcc, yearMessages)
        streaks      == calculateStreaks(acc.dailyActivity, y, clock)
    IN [year |-> y,
        source |-> src,
        firstSessionDate |-> first,
        daysSinceFirstSession |->
            IF sessionsIn = <<>> THEN 0
            ELSE IF first = NaN THEN NaN ELSE (clock - first) \div HoursPerDay,
        totalSessions |-> Len(sessions),
        totalMessages |-> Len(yearMessages),
        totalProjects |-> Len(projectsIn),
        totalInputTokens |-> acc.totalInputTokens,
        totalOutputTokens |-> acc.totalOutputTokens,
        totalTokens |-> acc.totalInputTokens + acc.totalOutputTokens,
        totalCost |-> acc.totalCost,
        topModels |-> TopRanking(acc.modelCounts),
        topProviders |-> TopRanking(acc.providerCounts),
        maxStreak |-> streaks.maxStreak,
        currentStreak |-> streaks.currentStreak,
        maxStreakDays |-> streaks.maxStreakDays,
        dailyActivity |-> acc.dailyActivity,
        mostActiveDay |-> findMostActiveDay(acc.dailyActivity),
        weekdayActivity |-> buildWeekdayActivity(acc.weekdayCounts)]

(***************************************************************************)
(* The format parsers of collector.ts.  A line of a file is a record       *)
(*   type     the "type" field; "garbage" is a line JSON.parse rejects,    *)
(*            "" a JSON object without one                                 *)
(*   ts       the raw "timestamp" field (see parseTimestamp)               *)
(*   sid, cwd, provider, model, role   the fields of those names ("" when  *)
(*            the line has none)                                           *)
(*   body     whether the line has its sub-object (pi: message; codex:     *)
(*            payload): reading a field of a missing one throws            *)
(*   event    codex event_msg: payload.type                                *)
(*   usage    the optional usage data of the line                          *)
(***************************************************************************)
\* usage: undefined
NoUsage == <<>>

\* A raw timestamp: a number, or a string (an ISO date <<y, m, d, h>> in UTC;
\* <<>> stands for a string that is no date, and for a missing field).
NumberTs(n) == [isNumber |-> TRUE, number |-> n, text |-> <<>>]
StringTs(t) == [isNumber |-> FALSE, number |-> 0, text |-> t]

\* parseTimestamp: a number as it is, a string through new Date(ts).getTime().
parseTimestamp(ts) ==
    IF ts.isNumber THEN ts.number
    ELSE IF Len(ts.text) = 4
         THEN DaysFromCivil(ts.text[1], ts.text[2], ts.text[3]) * HoursPerDay + ts.text[4]
         ELSE NaN

\* year && new Date(timestamp).getFullYear() !== year (no filter: 0 or undefined)
YearMismatch(y, timestamp) == y # 0 /\ getFullYear(timestamp) # y

\* The state of one parse: the session (pi, codex) or the sessions Map
\* (claude), the messages, and whether the function has returned early.
EmptyParse == [session |-> <<>>, sessions |-> <<>>, messages |-> <<>>, returned |-> FALSE]

\* return { session: null, messages: [] }
Abandoned == [session |-> <<>>, sessions |-> <<>>, messages |-> <<>>, returned |-> TRUE]

\* session?.id ?? ""
SessionIdOf(st) == IF st.session = <<>> THEN "" ELSE st.session[1].id

\* A year mismatch of the session line that only drops the session.
PiSessionSkipOnly(st, line, y) ==
    LET timestamp == parseTimestamp(line.ts)
    IN IF YearMismatch(y, timestamp) THEN [st EXCEPT !.session = <<>>]
       ELSE [st EXCEPT !.session =
                <<[id |-> line.sid, timestamp |-> timestamp, cwd |-> line.cwd,
                   provider |-> line.provider, modelId |-> line.model, source |-> "pi"]>>]

\* parsePiFile, lines 88-103: a line of type "session".
PiSession(st, line, y) ==
    LET timestamp == parseTimestamp(line.ts)
    IN IF YearMismatch(y, timestamp) THEN Abandoned
       ELSE [st EXCEPT !.session =
                <<[id |-> line.sid, timestamp |-> timestamp, cwd |-> line.cwd,
                   provider |-> line.provider, modelId |-> line.model, source |-> "pi"]>>]

\* parsePiFile, lines 104-121: a line of type "message".
PiMessage(st, line, y) ==
    LET timestamp == parseTimestamp(line.ts)
    IN IF YearMismatch(y, timestamp) \/ ~line.body THEN st
       ELSE [st EXCEPT !.messages = Append(@,
                [sessionId |-> SessionIdOf(st), role |-> line.role, timestamp |-> timestamp,
                 provider |-> line.provider, modelId |-> line.model,
                 usage |-> line.usage, source |-> "pi"])]

\* parsePiFile: one iteration of the loop over the lines.
PiLine(st, line, y) ==
    IF line.type = "session" THEN PiSession(st, line, y)
    ELSE IF line.type = "message" THEN PiMessage(st, line, y)
    ELSE st

\* parseCodexFile, lines 269-284: a line of type "session_meta".
CodexSessionMeta(st, line, y) ==
    LET timestamp == parseTimestamp(line.ts)
    IN IF YearMismatch(y, timestamp) THEN Abandoned
       ELSE IF ~line.body THEN st
       ELSE [st EXCEPT !.session =
                <<[id |-> line.sid, timestamp |-> timestamp, cwd |-> line.cwd,
                   provider |-> IF line.provider = "" THEN "openai" ELSE line.provider,
                   modelId |-> "codex", source |-> "codex"]>>]

\* parseCodexFile, lines 285-298: a line of type "response_item".
CodexResponseItem(st, line, y) ==
    LET timestamp == parseTimestamp(line.ts)
    IN IF YearMismatch(y, timestamp) \/ ~line.body THEN st
       ELSE [st EXCEPT !.messages = Append(@,
                [sessionId |-> SessionIdOf(st), role |-> line.role, timestamp |-> timestamp,
                 provider |-> IF st.session = <<>> \/ st.session[1].provider = ""
                              THEN "openai" ELSE st.session[1].provider,
                 modelId |-> "codex", usage |-> NoUsage, source |-> "codex"])]

\* { input: usage.input_tokens || 0, output: usage.output_tokens || 0 }
CodexUsage(u) == <<[input |-> u.input_tokens, output |-> u.output_tokens, cost |-> 0]>>

RECURSIVE AttachForwards(_, _, _)
\* A scan from the start of the list: the oldest assistant message in want.
AttachForwards(msgs, i, u) ==
    IF i > Len(msgs) THEN msgs
    ELSE IF msgs[i].role = "assistant" /\ msgs[i].usage = <<>>
         THEN [msgs EXCEPT ![i].usage = CodexUsage(u)]
         ELSE AttachForwards(msgs, i + 1, u)

RECURSIVE AttachBackwards(_, _, _)
\* for (let i = messages.length - 1; i >= 0; i--) { if (...) { ...; break; } }
AttachBackwards(msgs, i, u) ==
    IF i = 0 THEN msgs
    ELSE IF msgs[i].role = "assistant" /\ msgs[i].usage = <<>>
         THEN [msgs EXCEPT ![i].usage = CodexUsage(u)]
         ELSE AttachBackwards(msgs, i - 1, u)

\* The attachment to the oldest message in want of usage.
AttachOldest(msgs, u) == AttachForwards(msgs, 1, u)

\* parseCodexFile, lines 304-314.
AttachUsage(msgs, u) == AttachBackwards(msgs, Len(msgs), u)

\* parseCodexFile, lines 299-315: an event_msg whose payload.type is "token_count".
CodexTokenCount(st, line) ==
    IF line.usage = <<>> THEN st
    ELSE [st EXCEPT !.messages = AttachUsage(@, line.usage[1])]

\* parseCodexFile: one iteration of the loop over the lines.
CodexLine(st, line, y) ==
    IF line.type = "session_meta" THEN CodexSessionMeta(st, line, y)
    ELSE IF line.type = "response_item" THEN CodexResponseItem(st, line, y)
    ELSE IF line.type = "event_msg" /\ line.body /\ line.event = "token_count"
         THEN CodexTokenCount(st, line)
    ELSE st

\* Map.prototype.has for a Map of sessions keyed by id.
HasSession(sessions, id) == \E i \in 1..Len(sessions) : sessions[i].id = id

\* parseClaudeFile, lines 168-205: one iteration of the loop over the lines.
ClaudeLine(st, line, y) ==
    LET timestamp == parseTimestamp(line.ts)
    IN IF line.type = "garbage" \/ line.type = "" \/ line.sid = "" THEN st
       ELSE IF YearMismatch(y, timestamp) THEN st
       ELSE [st EXCEPT
               !.sessions =
                   IF HasSession(@, line.sid) THEN @
                   ELSE Append(@, [id |-> line.sid, timestamp |-> timestamp,
                                   cwd |-> line.cwd, provider |-> "anthropic",
                                   modelId |-> IF line.model = "" THEN "claude" ELSE line.model,
                                   source |-> "claude"]),
               !.messages =
                   IF line.type \in {"user", "assistant"}
                   THEN Append(@, [sessionId |-> line.sid, role |-> line.type,
                                   timestamp |-> timestamp, provider |-> "anthropic",
                                   modelId |-> line.model, usage |-> line.usage,
                                   source |-> "claude"])
                   ELSE @]

\* One iteration of the line loop of the parser of a source.
ParseLine(src, st, line, y) ==
    IF src = "pi" THEN PiLine(st, line, y)
    ELSE IF src = "codex" THEN CodexLine(st, line, y)
    ELSE ClaudeLine(st, line, y)

RECURSIVE ParseLines(_, _, _, _)
\* The loop over the lines of a file, which an early return leaves.
ParseLines(src, st, lines, y) ==
    IF lines = <<>> \/ st.returned THEN st
    ELSE ParseLines(src, ParseLine(src, st, Head(lines), y), Tail(lines), y)

\* parsePiFile, parseClaudeFile, parseCodexFile on the text of a file.
ParseFile(src, lines, y) == ParseLines(src, EmptyParse, lines, y)

(***************************************************************************)
(* The inputs of the statistics engine.                                    *)
(***************************************************************************)
\* A local wall-clock time as a timestamp.
LocalTime(y, m, d, h) == DaysFromCivil(y, m, d) * HoursPerDay + h - TzOffsetHours

\* The days of the window: from 2024-12-31 on.
WindowStart == DaysFromCivil(2024, 12, 31)
Days == WindowStart .. (WindowStart + WindowDays - 1)

\* One message per day of the window: a user turn at local midnight on the
\* even days, an assistant turn with usage at 23:00 local time on the odd days.
DayMessage(d) ==
    IF d % 2 = 0
    THEN [sessionId |-> "s1", role |-> "user",
          timestamp |-> d * HoursPerDay - TzOffsetHours,
          provider |-> "", modelId |-> "", usage |-> NoUsage, source |-> "pi"]
    ELSE [sessionId |-> "s1", role |-> "assistant",
          timestamp |-> d * HoursPerDay + 23 - TzOffsetHours,
          provider |-> "anthropic", modelId |-> "A",
          usage |-> <<[input |-> 10, output |-> 5, cost |-> 1]>>, source |-> "pi"]

\* A second turn on 2025-01-01, at noon, by another model.
NoonMessage ==
    [sessionId |-> "", role |-> "assistant", timestamp |-> LocalTime(2025, 1, 1, 12),
     provider |-> "openai", modelId |-> "B",
     usage |-> <<[input |-> 3, output |-> 0, cost |-> 0]>>, source |-> "pi"]

MessagePool == {DayMessage(d) : d \in Days} \cup {NoonMessage}

RECURSIVE SeqsUpTo(_, _)
\* The sequences over S of length at most n.
SeqsUpTo(S, n) ==
    IF n = 0 THEN {<<>>}
    ELSE LET shorter == SeqsUpTo(S, n - 1)
         IN shorter \cup {Append(q, x) : q \in shorter, x \in S}

SessionA == [id |-> "s1", timestamp |-> LocalTime(2024, 12, 31, 9), cwd |-> "/a",
             provider |-> "anthropic", modelId |-> "A", source |-> "pi"]
SessionB == [id |-> "s2", timestamp |-> LocalTime(2025, 1, 2, 9), cwd |-> "/b",
             provider |-> "openai", modelId |-> "B", source |-> "pi"]

\* The session of a pi file whose session line has no timestamp, as parsePiFile
\* gives it when no year is passed.
SessionNoTime == ParseFile("pi",
                     <<[type |-> "session", ts |-> StringTs(<<>>), sid |-> "s3", cwd |-> "/a",
                        provider |-> "openai", model |-> "B", role |-> "", body |-> FALSE,
                        event |-> "", usage |-> NoUsage]>>, 0).session[1]

SessionInputs == {<<>>, <<SessionB>>, <<SessionB, SessionA>>, <<SessionB, SessionNoTime>>}

NowInputs == {LocalTime(2025, 1, 1, 12), LocalTime(2025, 1, 3, 0), LocalTime(2025, 1, 5, 12)}

YearInputs == {2024, 2025}

\* No parse is under way.
ParserIdle ==
    /\ fileLines = <<>>
    /\ lineNo = 1
    /\ yearFilter = 0
    /\ parse = EmptyParse
    /\ ppc = "idle"

\* No statistics run is under way.
StatsIdle ==
    /\ year = 0
    /\ now = 0
    /\ allSessions = <<>>
    /\ messages = <<>>
    /\ projects = <<>>
    /\ stats = <<>>
    /\ pc = "idle"

\* No collection is under way.
CollectIdle ==
    /\ files = <<>>
    /\ rootReadable = TRUE
    /\ access = <<>>
    /\ collectYear = 0
    /\ pending = {}
    /\ accSessions = <<>>
    /\ accMessages = <<>>
    /\ projectMap = <<>>
    /\ claudeSessions = <<>>
    /\ collected = <<>>
    /\ cpc = "idle"

StatsInit ==
    /\ summerTime = NoSummerTime
    /\ ParserIdle
    /\ CollectIdle
    /\ source = "pi"
    /\ year \in YearInputs
    /\ now \in NowInputs
    /\ allSessions \in SessionInputs
    /\ messages \in SeqsUpTo(MessagePool, MaxMsgs)
    /\ projects = ProjectList(GroupByCwd(<<>>, allSessions), source)
    /\ stats = <<>>
    /\ pc = "collected"

\* calculateStats(year, source) on what collectAll(source) returned.
CalculateStats ==
    /\ pc = "collected"
    /\ stats' = <<calculateStats(year, source, now, allSessions, messages, projects)>>
    /\ pc' = "done"
    /\ UNCHANGED <<source, summerTime, year, now, allSessions, messages, projects, parserVars,
                   collectVars>>

StatsNext == CalculateStats

SpecStats == StatsInit /\ [][StatsNext]_vars


(***************************************************************************)
(* The ranking inputs: for each ranked identifier a block of assistant     *)
(* turns, the blocks in the order the identifiers are first seen.          *)
(***************************************************************************)
ModelIds == {"A", "B", "C", "D"}
RankCounts == {3, 5, 9}
ProviderOf == [id \in ModelIds |->
                 CASE id = "A" -> "anthropic" [] id = "B" -> "openai"
                   [] id = "C" -> "google" [] OTHER -> "xai"]

RankMessage(id) ==
    [sessionId |-> "s1", role |-> "assistant", timestamp |-> LocalTime(2025, 1, 2, 9),
     provider |-> ProviderOf[id], modelId |-> id, usage |-> NoUsage, source |-> "pi"]

RECURSIVE Expand(_)
\* The messages of a sequence of <<id, count>> blocks.
Expand(blocks) ==
    IF blocks = <<>> THEN <<>>
    ELSE [i \in 1..Head(blocks)[2] |-> RankMessage(Head(blocks)[1])] \o Expand(Tail(blocks))

RankInputs ==
    {b \in SeqsUpTo(ModelIds \X RankCounts, Cardinality(ModelIds)) :
        \A i, j \in 1..Len(b) : i # j => b[i][1] # b[j][1]}

RankInit ==
    /\ summerTime = NoSummerTime
    /\ ParserIdle
    /\ CollectIdle
    /\ source = "pi"
    /\ year = 2025
    /\ now = LocalTime(2025, 1, 3, 0)
    /\ allSessions = <<>>
    /\ messages \in {Expand(b) : b \in RankInputs}
    /\ projects = <<>>
    /\ stats = <<>>
    /\ pc = "collected"

SpecRank == RankInit /\ [][StatsNext]_vars

(***************************************************************************)
(* The inputs around the end of daylight saving: a zone that keeps summer  *)
(* time from 2025-03-30 01:00 UTC to 2025-10-26 01:00 UTC, when its clocks *)
(* go back one hour and the local day lasts 25 hours.                      *)
(***************************************************************************)
ClockChangeDay == DaysFromCivil(2025, 10, 26)

SummerTime2025 == [start |-> DaysFromCivil(2025, 3, 30) * HoursPerDay + 1,
                   end   |-> ClockChangeDay * HoursPerDay + 1]

\* The days from two days before the clock change to the day after it.
ZoneDays == (ClockChangeDay - 2) .. (ClockChangeDay + 1)

\* One user turn per day, at noon UTC.
ZoneMessage(d) ==
    [sessionId |-> "s1", role |-> "user", timestamp |-> d * HoursPerDay + 12,
     provider |-> "", modelId |-> "", usage |-> NoUsage, source |-> "pi"]

\* Noon UTC and 23:00 local time, on the day of the clock change and the day after.
ZoneNowInputs ==
    {d * HoursPerDay + h : d \in {ClockChangeDay, ClockChangeDay + 1},
                           h \in {12, 23 - TzOffsetHours}}

ZoneInit ==
    /\ summerTime \in {NoSummerTime, <<SummerTime2025>>}
    /\ ParserIdle
    /\ CollectIdle
    /\ source = "pi"
    /\ year = 2025
    /\ now \in ZoneNowInputs
    /\ allSessions = <<>>
    /\ messages \in SeqsUpTo({ZoneMessage(d) : d \in ZoneDays}, MaxMsgs)
    /\ projects = <<>>
    /\ stats = <<>>
    /\ pc = "collected"

SpecZone == ZoneInit /\ [][StatsNext]_vars

(***************************************************************************)
(* One parse of one file, line by line.                                    *)
(***************************************************************************)
Line(type, ts, sid, cwd, provider, model, role, body, event, usage) ==
    [type |-> type, ts |-> ts, sid |-> sid, cwd |-> cwd, provider |-> provider,
     model |-> model, role |-> role, body |-> body, event |-> event, usage |-> usage]

Garbage == Line("garbage", StringTs(<<>>), "", "", "", "", "", FALSE, "", NoUsage)

In2025 == NumberTs(LocalTime(2025, 1, 2, 9))
In2024 == StringTs(<<2024, 12, 31, 9>>)
NoTimestamp == StringTs(<<>>)

PiLines ==
    { Line("session", In2025, "s1", "/a", "anthropic", "A", "", FALSE, "", NoUsage),
      Line("session", In2024, "s2", "/b", "openai", "B", "", FALSE, "", NoUsage),
      Line("session", NoTimestamp, "s3", "/a", "openai", "B", "", FALSE, "", NoUsage),
      Line("message", In2025, "", "", "", "", "user", TRUE, "", NoUsage),
      Line("message", In2025, "", "", "anthropic", "A", "assistant", TRUE, "",
           <<[input |-> 10, output |-> 5, cost |-> 1]>>),
      Line("message", In2024, "", "", "", "", "user", TRUE, "", NoUsage),
      Line("message", In2025, "", "", "", "", "", FALSE, "", NoUsage),
      Garbage }

CodexLines ==
    { Line("session_meta", In2025, "c1", "/a", "", "", "", TRUE, "", NoUsage),
      Line("session_meta", In2024, "c2", "/b", "azure", "", "", TRUE, "", NoUsage),
      Line("session_meta", In2024, "", "", "", "", "", FALSE, "", NoUsage),
      Line("response_item", In2025, "", "", "", "", "assistant", TRUE, "", NoUsage),
      Line("response_item", In2025, "", "", "", "", "user", TRUE, "", NoUsage),
      Line("response_item", In2024, "", "", "", "", "assistant", TRUE, "", NoUsage),
      Line("event_msg", In2025, "", "", "", "", "", TRUE, "token_count",
           <<[input_tokens |-> 7, output_tokens |-> 2]>>),
      Line("event_msg", In2025, "", "", "", "", "", TRUE, "token_count",
           <<[input_tokens |-> 0, output_tokens |-> 4]>>),
      Line("event_msg", In2025, "", "", "", "", "", TRUE, "token_count", NoUsage),
      Line("event_msg", In2025, "", "", "", "", "", TRUE, "agent_message", NoUsage),
      Garbage }

ClaudeLines ==
    { Line("user", In2025, "k1", "/a", "", "", "", TRUE, "", NoUsage),
      Line("assistant", In2025, "k1", "/b", "", "A", "", TRUE, "",
           <<[input |-> 10, output |-> 5, cost |-> 0]>>),
      Line("user", In2024, "k2", "/b", "", "", "", TRUE, "", NoUsage),
      Line("assistant", In2025, "k2", "/a", "", "B", "", TRUE, "", NoUsage),
      Line("summary", In2025, "k3", "/c", "", "", "", TRUE, "", NoUsage),
      Line("user", In2025, "", "/a", "", "", "", TRUE, "", NoUsage),
      Garbage }

LinesOf == [src \in {"pi", "codex", "claude"} |->
               CASE src = "pi" -> PiLines [] src = "codex" -> CodexLines [] OTHER -> ClaudeLines]

YearFilters == {0, 2025}

ParserInit ==
    /\ summerTime = NoSummerTime
    /\ StatsIdle
    /\ CollectIdle
    /\ source \in {"pi", "codex", "claude"}
    /\ fileLines \in SeqsUpTo(LinesOf[source], MaxLines)
    /\ lineNo = 1
    /\ yearFilter \in YearFilters
    /\ parse = EmptyParse
    /\ ppc = "parsing"

CurrentLine == fileLines[lineNo]

\* The loop body has run for the current line with result st.
Advance(st) ==
    /\ parse' = st
    /\ ppc' = IF st.returned THEN "returned" ELSE "parsing"
    /\ lineNo' = lineNo + 1
    /\ UNCHANGED <<source, summerTime, fileLines, yearFilter, statsVars, collectVars>>

AtLine(src) == ppc = "parsing" /\ source = src /\ lineNo <= Len(fileLines)

ReadPiSession ==
    /\ AtLine("pi") /\ CurrentLine.type = "session"
    /\ Advance(ParseLine(source, parse, CurrentLine, yearFilter))

ReadPiMessage ==
    /\ AtLine("pi") /\ CurrentLine.type = "message"
    /\ Advance(ParseLine(source, parse, CurrentLine, yearFilter))

ReadCodexSessionMeta ==
    /\ AtLine("codex") /\ CurrentLine.type = "session_meta"
    /\ Advance(ParseLine(source, parse, CurrentLine, yearFilter))

ReadCodexResponseItem ==
    /\ AtLine("codex") /\ CurrentLine.type = "response_item"
    /\ Advance(ParseLine(source, parse, CurrentLine, yearFilter))

ReadCodexEvent ==
    /\ AtLine("codex") /\ CurrentLine.type = "event_msg"
    /\ Advance(ParseLine(source, parse, CurrentLine, yearFilter))

ReadClaudeLine ==
    /\ AtLine("claude") /\ CurrentLine.type # "garbage"
    /\ Advance(ParseLine(source, parse, CurrentLine, yearFilter))

\* JSON.parse throws: the catch skips the line.
SkipMalformedLine ==
    /\ ppc = "parsing" /\ lineNo <= Len(fileLines) /\ CurrentLine.type = "garbage"
    /\ Advance(ParseLine(source, parse, CurrentLine, yearFilter))

\* return { session, messages } after the last line.
ParseReturn ==
    /\ ppc = "parsing" /\ lineNo > Len(fileLines)
    /\ ppc' = "returned"
    /\ UNCHANGED <<source, summerTime, fileLines, lineNo, yearFilter, parse, statsVars, collectVars>>

ParserNext ==
    \/ ReadPiSession \/ ReadPiMessage
    \/ ReadCodexSessionMeta \/ ReadCodexResponseItem \/ ReadCodexEvent
    \/ ReadClaudeLine \/ SkipMalformedLine \/ ParseReturn

SpecParser == ParserInit /\ [][ParserNext]_vars

(***************************************************************************)
(* collectAll and collectOpenCode: every file (opencode: every document)   *)
(* is read and parsed asynchronously, and the callback that merges its     *)
(* result runs when its own parse is done, in any order.                   *)
(***************************************************************************)
\* A session document and a message document of opencode.
SessionDoc(id, directory, created) ==
    Line("session_doc", NumberTs(created), id, directory, "", "", "", TRUE, "", NoUsage)
MessageDoc(sid, role, created, tokens) ==
    Line("message_doc", NumberTs(created), sid, "", "opencode", "A", role, TRUE, "", tokens)

PiSessionS1 == Line("session", In2025, "s1", "/a", "anthropic", "A", "", FALSE, "", NoUsage)
PiSessionS2 == Line("session", In2024, "s2", "/b", "openai", "B", "", FALSE, "", NoUsage)
PiUserTurn == Line("message", In2025, "", "", "", "", "user", TRUE, "", NoUsage)
PiOldTurn == Line("message", In2024, "", "", "", "", "user", TRUE, "", NoUsage)
CodexMetaC1 == Line("session_meta", In2025, "c1", "/a", "", "", "", TRUE, "", NoUsage)
CodexMetaC2 == Line("session_meta", In2024, "c2", "/b", "azure", "", "", TRUE, "", NoUsage)
CodexAssistantTurn == Line("response_item", In2025, "", "", "", "", "assistant", TRUE, "", NoUsage)
CodexTokens == Line("event_msg", In2025, "", "", "", "", "", TRUE, "token_count",
                    <<[input_tokens |-> 7, output_tokens |-> 2]>>)
ClaudeUserK1 == Line("user", In2025, "k1", "/a", "", "", "", TRUE, "", NoUsage)
ClaudeAssistantK1 == Line("assistant", In2025, "k1", "/b", "", "A", "", TRUE, "",
                          <<[input |-> 10, output |-> 5, cost |-> 0]>>)
ClaudeUserK2 == Line("user", In2024, "k2", "/b", "", "", "", TRUE, "", NoUsage)

\* The files a source's directory may hold.
FilePool ==
    [src \in {"pi", "codex", "claude", "opencode"} |->
        CASE src = "pi" ->
               { <<PiSessionS1, PiUserTurn>>, <<PiSessionS1, PiOldTurn>>,
                 <<PiSessionS2, PiOldTurn>>, <<Garbage>> }
          [] src = "codex" ->
               { <<CodexMetaC1, CodexAssistantTurn, CodexTokens>>, <<CodexMetaC1>>,
                 <<CodexMetaC2, CodexAssistantTurn>>, <<Garbage>> }
          [] src = "claude" ->
               { <<ClaudeUserK1, ClaudeUserK2>>, <<ClaudeAssistantK1>>,
                 <<ClaudeUserK2, ClaudeAssistantK1>>, <<Garbage>> }
          [] OTHER ->
               { <<SessionDoc("o1", "/a", LocalTime(2025, 1, 2, 9))>>,
                 <<SessionDoc("o1", "/b", LocalTime(2025, 1, 3, 9))>>,
                 <<SessionDoc("o2", "/a", LocalTime(2024, 12, 31, 9))>>,
                 <<MessageDoc("o1", "assistant", LocalTime(2025, 1, 2, 10),
                              <<[input |-> 10, output |-> 5, cost |-> 0]>>)>>,
                 <<Garbage>> }]

\* The outcomes of reaching and reading one file.
AccessKinds == {"ok", "hidden", "unreadable"}

\* The files whose callback runs whatever the file system does.
FoundFilesBlind(fs, root, acc) == 1..Len(fs)

\* findJsonlFiles (collectOpenCode: the readdir calls): a root that cannot be
\* listed gives no file, and a sub-directory or entry that cannot be read
\* leaves its files out.
FoundFiles(fs, root, acc) ==
    IF root THEN {i \in 1..Len(fs) : acc[i] # "hidden"} ELSE {}

\* await Bun.file(filePath).text() inside the parser's try: a file that cannot
\* be read gives the parser's empty result.
ReadAndParse(src, i) ==
    IF access[i] = "unreadable" THEN ParseFile(src, <<>>, collectYear)
    ELSE ParseFile(src, files[i], collectYear)

CollectInit ==
    /\ summerTime = NoSummerTime
    /\ StatsIdle
    /\ ParserIdle
    /\ source \in {"pi", "codex", "claude", "opencode"}
    /\ files \in {f \in SeqsUpTo(FilePool[source], MaxFiles) :
                     \A i, j \in 1..Len(f) : i # j => f[i] # f[j]}
    /\ rootReadable \in BOOLEAN
    /\ access \in [1..Len(files) -> AccessKinds]
    /\ collectYear \in YearFilters
    /\ pending = FoundFiles(files, rootReadable, access)
    /\ accSessions = <<>>
    /\ accMessages = <<>>
    /\ projectMap = <<>>
    /\ claudeSessions = <<>>
    /\ collected = <<>>
    /\ cpc = "collecting"

\* The callback of file i has run.
Merged(i) ==
    /\ pending' = pending \ {i}
    /\ UNCHANGED <<source, summerTime, files, rootReadable, access, collectYear, collected, cpc,
                   statsVars, parserVars>>

\* collectAll, lines 518-527 (pi) and 550-559 (codex): the callback of one file.
SessionFileDone(src, i) ==
    /\ cpc = "collecting" /\ source = src /\ i \in pending
    /\ LET r == ReadAndParse(src, i)
       IN /\ accSessions' = accSessions \o r.session
          /\ projectMap' = IF r.session = <<>> THEN projectMap
                           ELSE MapInc(projectMap, r.session[1].cwd)
          /\ accMessages' = accMessages \o r.messages
    /\ UNCHANGED claudeSessions
    /\ Merged(i)

PiFileDone == \E i \in pending : SessionFileDone("pi", i)

CodexFileDone == \E i \in pending : SessionFileDone("codex", i)

RECURSIVE MergeSessions(_, _)
\* for (const [id, session] of fileSessions) if (!allSessions.has(id)) { ... }:
\* acc is the pair of allSessions and projectMap.
MergeSessions(acc, fileSessions) ==
    IF fileSessions = <<>> THEN acc
    ELSE LET session == Head(fileSessions)
         IN MergeSessions(
                IF HasSession(acc.allSessions, session.id) THEN acc
                ELSE [allSessions |-> Append(acc.allSessions, session),
                      projectMap |-> MapInc(acc.projectMap, session.cwd)],
                Tail(fileSessions))

\* collectAll, lines 533-544 (claude): the callback of one file.
ClaudeFileDone ==
    \E i \in pending :
        /\ cpc = "collecting" /\ source = "claude"
        /\ LET r == ReadAndParse("claude", i)
               m == MergeSessions([allSessions |-> claudeSessions, projectMap |-> projectMap],
                                  r.sessions)
           IN /\ claudeSessions' = m.allSessions
              /\ projectMap' = m.projectMap
              /\ accMessages' = accMessages \o r.messages
        /\ UNCHANGED accSessions
        /\ Merged(i)

\* if (year && new Date(timestamp).getFullYear() !== year) return; a document
\* that is no JSON or has no time throws, and the catch skips it.
DocAccepted(doc, y) == doc.type # "garbage" /\ doc.body /\ ~YearMismatch(y, doc.ts.number)

\* await Bun.file(...).json() inside the callback's try: a document that
\* cannot be read is skipped like one that is no JSON.
DocRead(i) == access[i] = "ok" /\ DocAccepted(files[i][1], collectYear)

\* sessions.push({ id: raw.id, timestamp, cwd: raw.directory, ... }).
OpenCodeSession(raw) ==
    [id |-> raw.sid, timestamp |-> raw.ts.number, cwd |-> raw.cwd,
     provider |-> "opencode", modelId |-> "opencode", source |-> "opencode"]

\* allMessages.push({ sessionId: raw.sessionID, role: raw.role, ... }).
OpenCodeMessage(raw) ==
    [sessionId |-> raw.sid, role |-> raw.role, timestamp |-> raw.ts.number,
     provider |-> raw.provider, modelId |-> raw.model, usage |-> raw.usage,
     source |-> "opencode"]

\* collectOpenCode, lines 376-396: the callback of one session document.
OpenCodeSessionDone ==
    \E i \in pending :
        /\ cpc = "collecting" /\ source = "opencode"
        /\ files[i][1].type # "message_doc"
        /\ LET raw == files[i][1]
           IN IF DocRead(i)
              THEN /\ accSessions' = Append(accSessions, OpenCodeSession(raw))
                   /\ projectMap' = MapInc(projectMap, raw.cwd)
              ELSE UNCHANGED <<accSessions, projectMap>>
        /\ UNCHANGED <<accMessages, claudeSessions>>
        /\ Merged(i)

\* collectOpenCode, lines 419-445: the callback of one message document; the
\* message pass starts when the session pass is over.
OpenCodeMessageDone ==
    \E i \in pending :
        /\ cpc = "collecting" /\ source = "opencode"
        /\ files[i][1].type = "message_doc"
        /\ \A j \in pending : files[j][1].type = "message_doc"
        /\ LET raw == files[i][1]
           IN IF DocRead(i)
              THEN accMessages' = Append(accMessages, OpenCodeMessage(raw))
              ELSE UNCHANGED accMessages
        /\ UNCHANGED <<accSessions, projectMap, claudeSessions>>
        /\ Merged(i)

\* collectAll, lines 547 and 566-572 (collectOpenCode, lines 456-462): every
\* callback has run; the projects are listed and the collections returned.
CollectReturn ==
    /\ cpc = "collecting" /\ pending = {}
    /\ collected' = <<[sessions |-> accSessions \o claudeSessions,
                       messages |-> accMessages,
                       projects |-> ProjectList(projectMap, source)]>>
    /\ cpc' = "returned"
    /\ UNCHANGED <<source, summerTime, files, rootReadable, access, collectYear, pending, accSessions,
                   accMessages, projectMap, claudeSessions, statsVars, parserVars>>

CollectNext ==
    \/ PiFileDone \/ CodexFileDone \/ ClaudeFileDone
    \/ OpenCodeSessionDone \/ OpenCodeMessageDone \/ CollectReturn

SpecCollect == CollectInit /\ [][CollectNext]_vars

(***************************************************************************)
(* Properties of the statistics engine.                                    *)
(***************************************************************************)
Done == pc = "done"
Result == stats[1]

\* The positions of the collected messages that fall in the target year.
InYear == {i \in 1..Len(messages) : getFullYear(messages[i].timestamp) = year}

\* The local day numbers with a message of the target year.
ActiveDays == {LocalDay(messages[i].timestamp) : i \in InYear}

\* C1: the counts of the dailyActivity map sum to totalMessages, the number
\* of collected messages whose timestamp falls in the target year.
C1_DailySumIsTotal ==
    Done => /\ SumCounts(Result.dailyActivity) = Result.totalMessages
            /\ Result.totalMessages = Cardinality(InYear)

\* A run with several messages in the year, two of them on one day, and a
\* message outside the year.
C1_Witness ==
    /\ Done
    /\ Cardinality(InYear) >= 2
    /\ Cardinality(InYear) < Len(messages)
    /\ \E i \in 1..Len(Result.dailyActivity) : Result.dailyActivity[i].count >= 2

\* C2: maxStreakDays has maxStreak elements, and its dates are consecutive
\* calendar days (sorted, each is the day after the one before it).
C2_StreakDaysConsecutive ==
    Done =>
        LET nums == {DaysFromCivil(k[1], k[2], k[3]) : k \in Result.maxStreakDays}
        IN /\ Cardinality(Result.maxStreakDays) = Result.maxStreak
           /\ \A a \in nums : a + 1 \in nums \/ \A b \in nums : b <= a
           /\ Cardinality(nums) = Cardinality(Result.maxStreakDays)

\* A streak of three days.
C2_Witness == Done /\ Result.maxStreak >= 3 /\ Cardinality(Result.maxStreakDays) >= 3

\* The length of the run of days of the set active that starts at day a.
RECURSIVE RunLength(_, _)
RunLength(active, a) == IF a \in active THEN 1 + RunLength(active, a + 1) ELSE 0

\* The runs of a set of days: <<start, length>> for every day that starts one.
Runs(active) == {<<a, RunLength(active, a)>> : a \in {b \in active : b - 1 \notin active}}

C4_StreakCrossesYear ==
    (/\ Done
     /\ formatDateKey(now) = <<year, 1, 1>>
     /\ \E i \in 1..Len(messages) :
            formatDateKey(messages[i].timestamp) = <<year - 1, 12, 31>>
     /\ \E i \in 1..Len(messages) :
            formatDateKey(messages[i].timestamp) = <<year, 1, 1>>)
    => Result.currentStreak >= 2

\* C5: with no message in the target year the aggregate is complete, with
\* maxStreak 0, currentStreak 0, no maxStreakDays and no mostActiveDay.
C5_EmptyYear ==
    Done /\ InYear = {} =>
        /\ Len(stats) = 1
        /\ Result.maxStreak = 0
        /\ Result.currentStreak = 0
        /\ Result.maxStreakDays = {}
        /\ Result.mostActiveDay = <<>>
        /\ Result.totalMessages = 0

\* No message in the target year, but one today, in another year.
C5_Witness ==
    /\ Done
    /\ InYear = {}
    /\ \E i \in 1..Len(messages) :
           formatDateKey(messages[i].timestamp) = formatDateKey(now)

\* C6: mostActiveDay is a date of maximal count, and of the dates of that
\* count the one inserted first into the map.
C6_MostActiveFirstInserted ==
    Done /\ Result.dailyActivity # <<>> =>
        LET map == Result.dailyActivity
            top == {i \in 1..Len(map) : \A j \in 1..Len(map) : map[j].count <= map[i].count}
            first == CHOOSE i \in top : \A j \in top : i <= j
        IN /\ Len(Result.mostActiveDay) = 1
           /\ Result.mostActiveDay[1].count = map[first].count
           /\ Result.mostActiveDay[1].date = map[first].key

\* Two dates share the maximum and the one inserted first is the later date.
C6_Witness ==
    /\ Done
    /\ Len(Result.dailyActivity) >= 2
    /\ Result.dailyActivity[1].count = Result.dailyActivity[2].count
    /\ KeyLess(Result.dailyActivity[2].key, Result.dailyActivity[1].key)
    /\ Len(Result.mostActiveDay) = 1
    /\ Result.mostActiveDay[1].date = Result.dailyActivity[1].key


\* The positions of the year's assistant messages that name identifier id in
\* field f ("modelId" or "provider").
Occurrences(f, id) ==
    {i \in InYear : messages[i].role = "assistant" /\ messages[i][f] = id}

Counted(f) == {messages[i][f] : i \in {j \in InYear : messages[j].role = "assistant"}} \ {""}

FirstOccurrence(f, id) == CHOOSE i \in Occurrences(f, id) : \A j \in Occurrences(f, id) : i <= j

\* A ranking is capped, descending, loses no larger count and is stable.
RankingOK(top, f) ==
    LET ids == {top[i].id : i \in 1..Len(top)}
    IN /\ Len(top) <= 3
       /\ Len(top) = IF Cardinality(Counted(f)) < 3 THEN Cardinality(Counted(f)) ELSE 3
       /\ Cardinality(ids) = Len(top)
       /\ ids \subseteq Counted(f)
       /\ \A i \in 1..Len(top) : top[i].count = Cardinality(Occurrences(f, top[i].id))
       /\ \A i, j \in 1..Len(top) : i < j => top[i].count >= top[j].count
       /\ \A i, j \in 1..Len(top) :
             i < j /\ top[i].count = top[j].count
                => FirstOccurrence(f, top[i].id) < FirstOccurrence(f, top[j].id)
       /\ \A x \in ids, y \in Counted(f) \ ids :
             /\ Cardinality(Occurrences(f, y)) <= Cardinality(Occurrences(f, x))
             /\ Cardinality(Occurrences(f, y)) = Cardinality(Occurrences(f, x))
                   => FirstOccurrence(f, x) < FirstOccurrence(f, y)

\* The counts {A:5, B:5, C:3, D:9}, A first seen before B.
ExampleCounts ==
    /\ Counted("modelId") = {"A", "B", "C", "D"}
    /\ Cardinality(Occurrences("modelId", "A")) = 5
    /\ Cardinality(Occurrences("modelId", "B")) = 5
    /\ Cardinality(Occurrences("modelId", "C")) = 3
    /\ Cardinality(Occurrences("modelId", "D")) = 9
    /\ FirstOccurrence("modelId", "A") < FirstOccurrence("modelId", "B")

\* C7: topModels and topProviders each hold at most 3 entries in
\* non-increasing order of count, omit no identifier with a larger count,
\* and keep identifiers of equal count in first-occurrence order; the counts
\* {A:5, B:5, C:3, D:9} give D, A, B.
C7_TopRankingStableCapped ==
    Done =>
        /\ RankingOK(Result.topModels, "modelId")
        /\ RankingOK(Result.topProviders, "provider")
        /\ (ExampleCounts =>
               [i \in 1..3 |-> Result.topModels[i].id] = <<"D", "A", "B">>)

\* The example, with D seen first and C before A and B.
C7_Witness ==
    /\ Done
    /\ ExampleCounts
    /\ FirstOccurrence("modelId", "C") < FirstOccurrence("modelId", "A")
    /\ [i \in 1..Len(Result.topModels) |-> Result.topModels[i].id] = <<"D", "A", "B">>


(***************************************************************************)
(* Properties of the parsers.                                              *)
(***************************************************************************)
\* The loop of parseCodexFile is at a token-count event that has usage data.
AtTokenCount ==
    /\ AtLine("codex")
    /\ CurrentLine.type = "event_msg" /\ CurrentLine.body
    /\ CurrentLine.event = "token_count"
    /\ CurrentLine.usage # <<>>

\* The assistant messages that have no usage yet.
InWant(msgs) == {i \in 1..Len(msgs) : msgs[i].role = "assistant" /\ msgs[i].usage = <<>>}

\* C8: a token-count event with usage data sets the usage of exactly the
\* most recent earlier assistant message without usage, changes no other
\* message, and changes nothing when there is none; a message created by a
\* later line starts without usage.
C8_TokenCountBackAttach ==
    [][ /\ AtTokenCount =>
              LET old  == parse.messages
                  want == InWant(old)
                  u    == CurrentLine.usage[1]
              IN /\ parse'.session = parse.session
                 /\ Len(parse'.messages) = Len(old)
                 /\ IF want = {} THEN parse'.messages = old
                    ELSE LET k == CHOOSE i \in want : \A j \in want : j <= i
                         IN /\ \A i \in 1..Len(old) : i # k => parse'.messages[i] = old[i]
                            /\ parse'.messages[k] =
                                  [old[k] EXCEPT !.usage =
                                      <<[input |-> u.input_tokens,
                                         output |-> u.output_tokens, cost |-> 0]>>]
        /\ AtLine("codex") /\ ~AtTokenCount /\ ~parse'.returned =>
              /\ Len(parse'.messages) >= Len(parse.messages)
              /\ \A i \in 1..Len(parse'.messages) :
                    IF i <= Len(parse.messages)
                    THEN parse'.messages[i] = parse.messages[i]
                    ELSE parse'.messages[i].usage = <<>>
      ]_vars

\* A token-count event has just given its usage to the first message, an
\* assistant's, across a later user message.
C8_Witness ==
    /\ source = "codex" /\ lineNo = 4
    /\ fileLines[3].type = "event_msg" /\ fileLines[3].usage # <<>>
    /\ Len(parse.messages) = 2
    /\ parse.messages[1].role = "assistant"
    /\ parse.messages[1].usage = CodexUsage(fileLines[3].usage[1])
    /\ parse.messages[2].role = "user"

\* A session-defining line of the file whose year is not the filter's.
SessionLineOfOtherYear(i) ==
    /\ fileLines[i].type = (IF source = "pi" THEN "session" ELSE "session_meta")
    /\ getFullYear(parseTimestamp(fileLines[i].ts)) # yearFilter

\* C9: pi and codex, with a year filter: a file whose session-defining line
\* has another year returns no session and no messages.
C9_OtherYearAbandonsFile ==
    (/\ ppc = "returned"
     /\ source \in {"pi", "codex"}
     /\ yearFilter # 0
     /\ \E i \in 1..Len(fileLines) : SessionLineOfOtherYear(i))
    => parse.session = <<>> /\ parse.messages = <<>>

\* A session of the year and a message of the year, then a session line of
\* another year: the parse returns nothing.
C9_Witness ==
    /\ ppc = "returned" /\ source = "pi" /\ yearFilter = 2025
    /\ Len(fileLines) = 3
    /\ fileLines[1].type = "session" /\ ~SessionLineOfOtherYear(1)
    /\ fileLines[2].type = "message" /\ fileLines[2].body
    /\ getFullYear(parseTimestamp(fileLines[2].ts)) = yearFilter
    /\ SessionLineOfOtherYear(3)
    /\ parse.session = <<>> /\ parse.messages = <<>>


(***************************************************************************)
(* Properties of the collector.                                            *)
(***************************************************************************)
\* C10: the sessions collectAll returns hold no two sessions with the same
\* identifier, for every source and every set of input files.
C10_SessionIdsUnique ==
    cpc = "returned" =>
        \A i, j \in 1..Len(collected[1].sessions) :
            i # j => collected[1].sessions[i].id # collected[1].sessions[j].id

\* The user and assistant lines of a claude file that pass the filters.
ClaudeTurns ==
    {i \in 1..Len(fileLines) :
        /\ fileLines[i].type \in {"user", "assistant"}
        /\ fileLines[i].sid # ""
        /\ ~YearMismatch(yearFilter, parseTimestamp(fileLines[i].ts))}

\* C11: parseClaudeFile registers a session only for a user or assistant
\* line, once per session id with the data of the first such line, and every
\* user or assistant line that passes the filters yields one message; a line
\* of another type registers no session.
C11_ClaudeSessionsFromTurns ==
    ppc = "returned" /\ source = "claude" =>
        /\ Len(parse.messages) = Cardinality(ClaudeTurns)
        /\ \A i \in ClaudeTurns : HasSession(parse.sessions, fileLines[i].sid)
        /\ \A k, l \in 1..Len(parse.sessions) :
              k # l => parse.sessions[k].id # parse.sessions[l].id
        /\ \A k \in 1..Len(parse.sessions) :
              LET mine == {i \in ClaudeTurns : fileLines[i].sid = parse.sessions[k].id}
              IN /\ mine # {}
                 /\ LET first == CHOOSE i \in mine : \A j \in mine : i <= j
                    IN /\ parse.sessions[k].cwd = fileLines[first].cwd
                       /\ parse.sessions[k].timestamp = parseTimestamp(fileLines[first].ts)

\* A line that does not decode, or that lacks a field its type requires: the
\* timestamp, the sub-object of a pi message or of a codex line, the
\* sessionId of a claude line.
Malformed(src, line) ==
    \/ line.type = "garbage"
    \/ line.ts = NoTimestamp
    \/ src = "pi" /\ line.type = "message" /\ ~line.body
    \/ src = "codex" /\ ~line.body
    \/ src = "claude" /\ line.sid = ""

\* The lines of a file without line i.
Without(lines, i) == SubSeq(lines, 1, i - 1) \o SubSeq(lines, i + 1, Len(lines))

\* What a parse returns: the session(s) and the messages.
Outcome(st) == [session |-> st.session, sessions |-> st.sessions, messages |-> st.messages]

\* C13: a line that fails to decode or lacks a required field contributes no
\* session and no message, and the parse of the file returns what the parse of
\* the file without that line returns.
C13_MalformedLineIsAbsent ==
    ppc = "returned" =>
        \A i \in 1..Len(fileLines) :
            Malformed(source, fileLines[i]) =>
                Outcome(parse) = Outcome(ParseFile(source, Without(fileLines, i), yearFilter))

\* The positions of the collected sessions that fall in the target year.
SessionsInYear == {i \in 1..Len(allSessions) : getFullYear(allSessions[i].timestamp) = year}

\* C14: totalProjects counts the distinct working directories of the
\* sessions whose timestamp falls in the target year.
C14_ProjectsOfYear ==
    Done => Result.totalProjects = Cardinality({allSessions[i].cwd : i \in SessionsInYear})

\* C15: firstSessionDate is the minimum timestamp over all the collected
\* sessions, whatever the target year; with no session at all it is "now" and
\* daysSinceFirstSession is 0.
C15_FirstSessionIsLifetimeMin ==
    Done =>
        IF allSessions = <<>>
        THEN Result.firstSessionDate = now /\ Result.daysSinceFirstSession = 0
        ELSE /\ Result.firstSessionDate # NaN
             /\ \E i \in 1..Len(allSessions) :
                    allSessions[i].timestamp = Result.firstSessionDate
             /\ \A i \in 1..Len(allSessions) :
                    allSessions[i].timestamp # NaN
                        => Result.firstSessionDate <= allSessions[i].timestamp

(***************************************************************************)
(* Properties of the collection.                                           *)
(***************************************************************************)
Returned == cpc = "returned"
Collected == collected[1]

Elements(seq) == {seq[i] : i \in 1..Len(seq)}

\* What file i holds for the run: the sessions and messages its parse gives.
Contribution(i) ==
    IF source = "opencode"
    THEN LET raw == files[i][1]
         IN [sessions |-> IF DocAccepted(raw, collectYear) /\ raw.type # "message_doc"
                          THEN <<OpenCodeSession(raw)>> ELSE <<>>,
             messages |-> IF DocAccepted(raw, collectYear) /\ raw.type = "message_doc"
                          THEN <<OpenCodeMessage(raw)>> ELSE <<>>]
    ELSE LET r == ParseFile(source, files[i], collectYear)
         IN [sessions |-> IF source = "claude" THEN r.sessions ELSE r.session,
             messages |-> r.messages]

\* The files that are reached and read.
ReadUnits == IF rootReadable THEN {i \in 1..Len(files) : access[i] = "ok"} ELSE {}

\* The files that are not, although they hold a session.
LostUnits == {i \in 1..Len(files) : i \notin ReadUnits /\ Contribution(i).sessions # <<>>}

RECURSIVE TotalMessages(_)
TotalMessages(units) ==
    IF units = {} THEN 0
    ELSE LET i == CHOOSE j \in units : TRUE
         IN Len(Contribution(i).messages) + TotalMessages(units \ {i})

\* C12: collectAll always comes to its return; with a root directory that
\* cannot be listed it returns no session, no message and no project, and a
\* sub-directory or file that cannot be read only takes its own sessions and
\* messages out of the result.
C12_ReadFailuresContained ==
    /\ cpc = "collecting" => ENABLED CollectNext
    /\ Returned =>
          /\ ~rootReadable =>
                Collected = [sessions |-> <<>>, messages |-> <<>>, projects |-> <<>>]
          /\ Elements(Collected.messages)
                = UNION {Elements(Contribution(i).messages) : i \in ReadUnits}
          /\ Len(Collected.messages) = TotalMessages(ReadUnits)
          /\ {s.id : s \in Elements(Collected.sessions)}
                = UNION {{s.id : s \in Elements(Contribution(i).sessions)} : i \in ReadUnits}
          /\ {p.path : p \in Elements(Collected.projects)}
                = {s.cwd : s \in Elements(Collected.sessions)}

\* A run over two files with a session each, one of which cannot be read.
C12_Witness ==
    /\ Returned
    /\ Len(files) = 2
    /\ Cardinality(ReadUnits) = 1
    /\ Cardinality(LostUnits) = 1
    /\ Len(Collected.sessions) = 1
    /\ Len(Collected.messages) >= 1

\* The accumulators the parse callbacks share.
Accumulators == <<accSessions, accMessages, projectMap, claudeSessions>>

\* C16: the shared accumulators are not modified while a parse of the batch
\* is pending: a step that changes one of them is taken when every parse of
\* the batch has completed.
C16_MergeAfterAllParses ==
    [][Accumulators' # Accumulators => pending' = {}]_vars

RECURSIVE InFileOrder(_, _)
\* The sessions and messages of the files from i on that are reached and
\* read, merged in the order of the files, a session id being kept once for
\* claude.
InFileOrder(acc, i) ==
    IF i > Len(files) THEN acc
    ELSE IF i \notin ReadUnits THEN InFileOrder(acc, i + 1)
    ELSE LET c == Contribution(i)
             fresh == IF source = "claude"
                      THEN SelectSeq(c.sessions, LAMBDA s : ~HasSession(acc.sessions, s.id))
                      ELSE c.sessions
         IN InFileOrder([sessions |-> acc.sessions \o fresh,
                         messages |-> acc.messages \o c.messages], i + 1)

\* C17: for a fixed set of files the result of collectAll is the same for
\* every order in which the parses complete: the sessions kept, their order
\* and that of the messages, and the project counts are those of the merge in
\* the order of the files.
C17_CompletionOrderIrrelevant ==
    Returned =>
        LET ref == InFileOrder([sessions |-> <<>>, messages |-> <<>>], 1)
        IN /\ Collected.sessions = ref.sessions
           /\ Collected.messages = ref.messages
           /\ Collected.projects = ProjectList(GroupByCwd(<<>>, ref.sessions), source)

\* The projects list counts the sessions list by working directory.
CountsSessions(projectList, sessions) ==
    /\ \A k, l \in 1..Len(projectList) : k # l => projectList[k].path # projectList[l].path
    /\ \A k \in 1..Len(projectList) :
          projectList[k].sessionCount
              = Cardinality({i \in 1..Len(sessions) : sessions[i].cwd = projectList[k].path})
    /\ \A i \in 1..Len(sessions) :
          \E k \in 1..Len(projectList) : projectList[k].path = sessions[i].cwd

RECURSIVE SumSessionCounts(_)
SumSessionCounts(projectList) ==
    IF projectList = <<>> THEN 0
    ELSE Head(projectList).sessionCount + SumSessionCounts(Tail(projectList))

\* C18: whatever the source and the order of the parse callbacks, the
\* projects returned have distinct paths, each sessionCount is the number of
\* returned sessions with that working directory, and the counts sum to the
\* number of returned sessions; the project Map agrees with the sessions
\* merged so far after every callback.
C18_ProjectCountsMatchSessions ==
    /\ cpc = "collecting" =>
          CountsSessions(ProjectList(projectMap, source), accSessions \o claudeSessions)
    /\ Returned =>
          /\ CountsSessions(Collected.projects, Collected.sessions)
          /\ SumSessionCounts(Collected.projects) = Len(Collected.sessions)

\* Two files merged, the second before the first, whose sessions share a
\* working directory.
C18_Witness ==
    /\ Returned
    /\ Len(files) = 2
    /\ Len(Collected.sessions) = 2
    /\ Contribution(2).sessions # <<>>
    /\ Collected.sessions[1] = Contribution(2).sessions[1]
    /\ \E k \in 1..Len(Collected.projects) : Collected.projects[k].sessionCount = 2

(***************************************************************************)
(* Properties of the streaks across a clock change.                        *)
(***************************************************************************)
\* C19: whatever the daily activity and the clock, currentStreak is at most
\* maxStreak (the backwards walk of countStreakBackwards ends: the run comes
\* to its result).
C19_CurrentWithinMax ==
    Done => Result.currentStreak <= Result.maxStreak

====
